---- MODULE Spec2Model ----
(***************************************************************************)
(* Model of the sparkfund model registry (ai-service ModelService) and of  *)
(* the fraud-detection updaters (kyc-service and aml-service).             *)
(*                                                                         *)
(* The registry keeps no state in memory: every method of ModelService     *)
(* opens models.json under MODEL_PATH, and nothing in the class takes a    *)
(* lock.  The catalog file and the payload files are therefore the shared  *)
(* state, and a call is a sequence of file operations.  Spec interleaves   *)
(* the calls of two servers of the same MODEL_PATH at the granularity of   *)
(* one file operation, every file operation succeeding; SeqSpec runs one   *)
(* call at a time (what a single event loop does, the handlers having no   *)
(* suspension point) and lets file operations fail.  UpdSpec runs the      *)
(* update command of the two fraud-detection scripts.                      *)
(***************************************************************************)
EXTENDS Integers, Sequences, FiniteSets, TLC

\* ---------------------------------------------------------------- bounds
MaxUploads == 2
MaxFailures == 1
MaxRows == 2

\* The servers of one MODEL_PATH.
Procs == {"s1", "s2"}

\* ------------------------------------------------------- version strings
\* A version is a Python str; it is modelled as its sequence of code points
\* ('.' is 46, the digits '0'..'9' are 48..57).
V_1_0_0 == <<49, 46, 48, 46, 48>>
V_1_2_0 == <<49, 46, 50, 46, 48>>
V_1_10_0 == <<49, 46, 49, 48, 46, 48>>
V_2_0_0 == <<50, 46, 48, 46, 48>>

\* The version strings given to upload_model: all of them where the calls run
\* one at a time, two of them where they run concurrently.
UploadVersions == {V_1_2_0, V_1_10_0, V_2_0_0}
ConcurrentVersions == {V_1_2_0, V_1_10_0}

\* Python's str comparison a < b: code point by code point, a proper prefix
\* being smaller.
RECURSIVE StrLess(_, _)
StrLess(a, b) ==
    IF b = <<>> THEN FALSE
    ELSE IF a = <<>> THEN TRUE
    ELSE IF Head(a) # Head(b) THEN Head(a) < Head(b)
    ELSE StrLess(Tail(a), Tail(b))

\* The decimal value of a run of digits.
RECURSIVE DecimalValue(_)
DecimalValue(s) ==
    IF s = <<>> THEN 0
    ELSE 10 * DecimalValue(SubSeq(s, 1, Len(s) - 1)) + (s[Len(s)] - 48)

\* The fields of s between the dots.
RECURSIVE SplitDots(_)
SplitDots(s) ==
    IF \A i \in 1..Len(s) : s[i] # 46 THEN <<s>>
    ELSE LET d == CHOOSE i \in 1..Len(s) :
                      s[i] = 46 /\ \A j \in 1..(i - 1) : s[j] # 46
         IN  <<SubSeq(s, 1, d - 1)>> \o SplitDots(SubSeq(s, d + 1, Len(s)))

\* major.minor.patch as three integers.
SemVer(s) == [i \in 1..3 |-> DecimalValue(SplitDots(s)[i])]

\* a < b as semantic versions, each field compared as an integer.
SemVerLess(a, b) ==
    LET x == SemVer(a)
        y == SemVer(b)
    IN  \/ x[1] < y[1]
        \/ x[1] = y[1] /\ x[2] < y[2]
        \/ x[1] = y[1] /\ x[2] = y[2] /\ x[3] < y[3]

\* ------------------------------------------------------------ the catalog
\* ModelTypes with a directory for one more type.
ModelTypesAndOther == {"DOCUMENT", "FACE", "RISK", "ANOMALY", "OTHER"}

\* The types upload_model has a directory for.
ModelTypes == {"DOCUMENT", "FACE", "RISK", "ANOMALY"}

\* The types given to upload_model: known types and one that is not known.
UploadTypes == {"RISK", "FACE", "OTHER"}
ConcurrentTypes == {"RISK", "OTHER"}

UploadNames == {"model"}

NoVal == [id |-> 0, name |-> "", version |-> <<>>, type |-> ""]

ModelInfo(id, name, version, type) ==
    [id |-> id, name |-> name, version |-> version, type |-> type]

\* models.json as __init__ writes it: {"models": []}.
EmptyCatalog == [ok |-> TRUE, models |-> <<>>]

\* models.json after open(..., "w") and before the dump has been written, or
\* after a write that stopped half way: json.load raises on it.
Truncated == [ok |-> FALSE, models |-> <<>>]

\* The four artifacts of _create_default_models, with ids base .. base+3.
DefaultModels(base) ==
    << ModelInfo(base, "Document Verification Model", V_1_0_0, "DOCUMENT"),
       ModelInfo(base + 1, "Face Recognition Model", V_1_0_0, "FACE"),
       ModelInfo(base + 2, "Risk Analysis Model", V_1_0_0, "RISK"),
       ModelInfo(base + 3, "Anomaly Detection Model", V_1_0_0, "ANOMALY") >>

\* GetModel answering with the first entry of the catalog when none has the id.
GetModelOrFirst(models, id) ==
    LET hits == SelectSeq(models, LAMBDA m : m.id = id)
    IN  IF hits # <<>> THEN [kind |-> "ok", val |-> Head(hits)]
        ELSE IF models # <<>> THEN [kind |-> "ok", val |-> Head(models)]
        ELSE [kind |-> "none", val |-> NoVal]

\* get_model: the first entry with the id, or nothing.
GetModel(models, id) ==
    LET hits == SelectSeq(models, LAMBDA m : m.id = id)
    IN  IF hits = <<>> THEN [kind |-> "none", val |-> NoVal]
        ELSE [kind |-> "ok", val |-> Head(hits)]

\* GetModelByType answering with the entry of the type that was appended to
\* the catalog first, whatever its version.
GetModelByTypeFirstUploaded(models, t) ==
    LET ofType == SelectSeq(models, LAMBDA m : m.type = t)
    IN  IF ofType = <<>> THEN [kind |-> "none", val |-> NoVal]
        ELSE [kind |-> "ok", val |-> Head(ofType)]

\* get_model_by_type: sorted(models_of_type, key=version, reverse=True)[0].
\* The key is the version str; the sort is stable, so among equal versions the
\* one that comes first in the catalog is returned.
GetModelByType(models, t) ==
    LET ofType == SelectSeq(models, LAMBDA m : m.type = t)
        best == CHOOSE i \in 1..Len(ofType) :
                    /\ \A j \in 1..Len(ofType) :
                           ~StrLess(ofType[i].version, ofType[j].version)
                    /\ \A j \in 1..(i - 1) :
                           StrLess(ofType[j].version, ofType[i].version)
    IN  IF ofType = <<>> THEN [kind |-> "none", val |-> NoVal]
        ELSE [kind |-> "ok", val |-> ofType[best]]

\* What a write of `new` at offset 0 leaves in a file that holds `file`.  A
\* file truncated since holds exactly `new`.  A file another writer has filled
\* since the truncation keeps its tail when it is longer than `new` (the
\* number of entries stands for the length; equal counts can go either way).
Overwrite(file, new) ==
    IF ~file.ok \/ Len(file.models) < Len(new)
    THEN {[ok |-> TRUE, models |-> new]}
    ELSE IF Len(file.models) > Len(new)
    THEN {Truncated}
    ELSE {[ok |-> TRUE, models |-> new], Truncated}

\* ------------------------------------------------------------------ state
VARIABLES
    sched,      \* "concurrent": the calls interleave; "serial": one at a time
    catalog,    \* models.json: [ok, models]
    payload,    \* payload file of each id: "none", "partial" or "complete"
    nextId,     \* the next uuid4
    pc,         \* where each call stands
    call,       \* the arguments of each call: [op, id, type, version, name]
    mid,        \* the id (upload) or first id (default models) a call generated
    snap,       \* the models a call read from models.json
    before,     \* models.json as the latest upload_model call found it at its start
    result,     \* what a finished call returned: [kind, val]
    lastRead,   \* the get_model or get_model_by_type call that has just run
    returned,   \* the entries whose id an upload_model call has returned
    uploads,    \* upload_model calls started
    failures,   \* I/O errors raised so far
    modelFile,  \* the joblib file of each fraud-detection script
    upc,        \* where the update run stands
    urun,       \* the script and the batch of the update run
    umem,       \* the classifier and scaler the run holds in memory
    ubefore,    \* the joblib files when the run started
    uout,       \* how the run ended
    published,  \* every artifact a joblib file has held
    classifier, \* the fitted classifier both predict variants score with
    scalers,    \* the scaler each predict variant holds: [fitted, mean]
    given,      \* the record as the caller of predict passed it
    features,   \* the caller's record after the call
    scored,     \* what the last predict call returned
    now,        \* the clock datetime.now() reads, in days
    raw,        \* the raw record engineer_features was last called on
    engineered, \* what the first engineer_features call on it returned
    again,      \* what the second engineer_features call on it returned
    calls,      \* engineer_features calls made on the record: 0, 1 or 2
    text,       \* the text get_text_features was last called on
    signal      \* how that call ended

regVars == <<catalog, payload, nextId, pc, call, mid, snap, before, result,
             lastRead, returned, uploads>>

updVars == <<modelFile, upc, urun, umem, ubefore, uout, published>>

\* The scoring pipeline: predict of the two fraud-detection scripts.
scoreVars == <<classifier, scalers, given, features, scored>>

\* Feature engineering and the text scorer.
featVars == <<now, raw, engineered, again, calls, text, signal>>

pipeVars == <<scoreVars, featVars>>

vars == <<sched, regVars, failures, updVars, pipeVars>>

NoCall == [op |-> "", id |-> 0, type |-> "", version |-> <<>>, name |-> ""]
NoResult == [kind |-> "", val |-> NoVal]
NoRead == [op |-> "", id |-> 0, type |-> "", seen |-> <<>>, res |-> NoResult]
Error(e) == [kind |-> e, val |-> NoVal]

\* ModelService.__init__ on a new MODEL_PATH: the directories, and models.json
\* holding {"models": []}.
RegistryInit ==
    /\ catalog = EmptyCatalog
    /\ payload = <<>>
    /\ nextId = 1
    /\ pc = [p \in Procs |-> "idle"]
    /\ call = [p \in Procs |-> NoCall]
    /\ mid = [p \in Procs |-> 0]
    /\ snap = [p \in Procs |-> <<>>]
    /\ before = EmptyCatalog
    /\ result = [p \in Procs |-> NoResult]
    /\ lastRead = NoRead
    /\ returned = {}
    /\ uploads = 0
    /\ failures = 0

\* A file operation raises OSError only in the serial runs, MaxFailures times.
MayFail(fail) == fail => (sched = "serial" /\ failures < MaxFailures)

\* A call starts: at any time in the concurrent runs, when no other call is
\* under way in the serial runs.
MayStart(p) == sched = "serial" => \A q \in Procs \ {p} : pc[q] = "idle"

Quiet == \A q \in Procs : pc[q] = "idle"

\* A call ends: its result is recorded.
Finish(p, r) ==
    /\ lastRead = NoRead
    /\ pc' = [pc EXCEPT ![p] = "done"]
    /\ result' = [result EXCEPT ![p] = r]
    /\ UNCHANGED <<sched, pipeVars, lastRead, updVars>>

Goto(p, l) ==
    /\ lastRead = NoRead
    /\ pc' = [pc EXCEPT ![p] = l]
    /\ UNCHANGED <<sched, pipeVars, result, lastRead, updVars>>

\* The payload file of an id.
PayloadOf(id) == IF id \in DOMAIN payload THEN payload[id] ELSE "none"

\* The ids a caller asks get_model for: those of the catalog, those upload_model
\* has returned, and one that no artifact has.
AskIds ==
    {0} \cup {catalog.models[i].id : i \in 1..Len(catalog.models)}
        \cup {e.id : e \in returned}

\* Every id that can be drawn: four per server for the default models, one per
\* upload.
Ids == 0..(4 * Cardinality(Procs) + MaxUploads)

\* The types a caller asks get_model_by_type for.
AskTypes == ModelTypes \cup {"OTHER"}

\* ------------------------------------------------------------- get_model
\* What a read of models.json and its json.load give a reader.
Read(op, id, t, res) ==
    [op |-> op, id |-> id, type |-> t,
     seen |-> IF catalog.ok THEN catalog.models ELSE <<>>, res |-> res]

\* get_model and get_model_by_type are one read of models.json and a search:
\* one step, whoever runs it.  lastRead holds the call and its answer until
\* the answer has gone to the caller.
GetModelCall(id, fail) ==
    /\ id \in AskIds
    /\ MayFail(fail)
    /\ sched = "serial" => Quiet
    /\ lastRead = NoRead
    /\ IF fail
       THEN /\ failures' = failures + 1
            /\ lastRead' = [NoRead EXCEPT !.op = "get", !.id = id,
                                          !.res = Error("OSError")]
       ELSE /\ UNCHANGED failures
            /\ lastRead' = Read("get", id, "",
                                IF catalog.ok THEN GetModel(catalog.models, id)
                                ELSE Error("JSONDecodeError"))
    /\ UNCHANGED <<sched, pipeVars, catalog, payload, nextId, pc, call, mid, snap, before,
                   result, returned, uploads, updVars>>

\* ----------------------------------------------------- get_model_by_type
GetModelByTypeCall(t, fail) ==
    /\ MayFail(fail)
    /\ sched = "serial" => Quiet
    /\ lastRead = NoRead
    /\ IF fail
       THEN /\ failures' = failures + 1
            /\ lastRead' = [NoRead EXCEPT !.op = "get_latest", !.type = t,
                                          !.res = Error("OSError")]
       ELSE /\ UNCHANGED failures
            /\ lastRead' = Read("get_latest", 0, t,
                                IF catalog.ok THEN GetModelByType(catalog.models, t)
                                ELSE Error("JSONDecodeError"))
    /\ UNCHANGED <<sched, pipeVars, catalog, payload, nextId, pc, call, mid, snap, before,
                   result, returned, uploads, updVars>>

\* The answer of a get_model or get_model_by_type call goes to its caller.
Respond ==
    /\ lastRead # NoRead
    /\ lastRead' = NoRead
    /\ UNCHANGED <<sched, pipeVars, catalog, payload, nextId, pc, call, mid, snap, before,
                   result, returned, uploads, failures, updVars>>

\* The status the router answers a get_model or get_model_by_type call with:
\* the artifact, HTTPException(404) when the service returned None, and
\* HTTPException(500) when it raised.
NotFound == 404
ServerError == 500
Found == 200
HttpStatus(res) ==
    IF res.kind = "ok" THEN Found
    ELSE IF res.kind = "none" THEN NotFound
    ELSE ServerError

\* ------------------------------------------------------------ list_models
\* The read of models.json.  A non-empty list is returned; an empty one sends
\* the call into _create_default_models, which draws its four uuid4 first.
ListModelsCall(p, fail) ==
    /\ pc[p] = "idle"
    /\ MayStart(p)
    /\ MayFail(fail)
    /\ call' = [call EXCEPT ![p] = [NoCall EXCEPT !.op = "list"]]
    /\ IF fail
       THEN /\ failures' = failures + 1
            /\ Finish(p, Error("OSError"))
            /\ UNCHANGED <<snap, mid, nextId>>
       ELSE /\ UNCHANGED failures
            /\ IF ~catalog.ok
               THEN /\ Finish(p, Error("JSONDecodeError"))
                    /\ UNCHANGED <<snap, mid, nextId>>
               ELSE /\ snap' = [snap EXCEPT ![p] = catalog.models]
                    /\ IF catalog.models # <<>>
                       THEN /\ Finish(p, [kind |-> "list", val |-> NoVal])
                            /\ UNCHANGED <<mid, nextId>>
                       ELSE /\ mid' = [mid EXCEPT ![p] = nextId]
                            /\ nextId' = nextId + 4
                            /\ Goto(p, "seed_open")
    /\ UNCHANGED <<catalog, payload, before, returned, uploads>>

\* _create_default_models: open(models_file, "w") truncates the catalog.
CreateDefaultsOpen(p, fail) ==
    /\ pc[p] = "seed_open"
    /\ MayFail(fail)
    /\ IF fail
       THEN /\ failures' = failures + 1
            /\ Finish(p, Error("OSError"))
            /\ UNCHANGED catalog
       ELSE /\ UNCHANGED failures
            /\ catalog' = Truncated
            /\ Goto(p, "seed_dump")
    /\ UNCHANGED <<payload, nextId, call, mid, snap, before, returned, uploads>>

\* _create_default_models: json.dump of the four default models; they are
\* what list_models returns.
CreateDefaultsDump(p, fail) ==
    /\ pc[p] = "seed_dump"
    /\ MayFail(fail)
    /\ IF fail
       THEN /\ failures' = failures + 1
            /\ Finish(p, Error("OSError"))
            /\ catalog' \in {catalog, Truncated}
            /\ UNCHANGED snap
       ELSE /\ UNCHANGED failures
            /\ catalog' \in Overwrite(catalog, DefaultModels(mid[p]))
            /\ snap' = [snap EXCEPT ![p] = DefaultModels(mid[p])]
            /\ Finish(p, [kind |-> "list", val |-> NoVal])
    /\ UNCHANGED <<payload, nextId, call, mid, before, returned, uploads>>

\* ----------------------------------------------------------- upload_model
\* The call draws its uuid4 and picks the directory of the type; a type that
\* is not one of the four raises ValueError.
UploadModelCall(p, t, name, v) ==
    /\ pc[p] = "idle"
    /\ MayStart(p)
    /\ sched = "concurrent" => (t \in ConcurrentTypes /\ v \in ConcurrentVersions)
    /\ uploads < MaxUploads
    /\ uploads' = uploads + 1
    /\ call' = [call EXCEPT ![p] =
                   [op |-> "upload", id |-> 0, type |-> t, version |-> v, name |-> name]]
    /\ mid' = [mid EXCEPT ![p] = nextId]
    /\ nextId' = nextId + 1
    /\ before' = catalog
    /\ IF t \in ModelTypes
       THEN Goto(p, "up_open")
       ELSE Finish(p, Error("ValueError"))
    /\ UNCHANGED <<catalog, payload, snap, returned, failures>>

\* open(model_file_path, "wb"): the payload file exists and is empty.
UploadOpenPayload(p, fail) ==
    /\ pc[p] = "up_open"
    /\ MayFail(fail)
    /\ IF fail
       THEN /\ failures' = failures + 1
            /\ Finish(p, Error("OSError"))
            /\ UNCHANGED payload
       ELSE /\ UNCHANGED failures
            /\ payload' = (mid[p] :> "partial") @@ payload
            /\ Goto(p, "up_copy")
    /\ UNCHANGED <<catalog, nextId, call, mid, snap, before, returned, uploads>>

\* UploadCopyPayload going on to the catalog with the payload file still open
\* and half written.
UploadCopyPayloadUnfinished(p, fail) ==
    /\ pc[p] = "up_copy"
    /\ MayFail(fail)
    /\ IF fail
       THEN /\ failures' = failures + 1
            /\ Finish(p, Error("OSError"))
       ELSE /\ UNCHANGED failures
            /\ Goto(p, "up_read")
    /\ UNCHANGED <<catalog, payload, nextId, call, mid, snap, before, returned,
                   uploads>>

\* shutil.copyfileobj and the close of the payload file.
UploadCopyPayload(p, fail) ==
    /\ pc[p] = "up_copy"
    /\ MayFail(fail)
    /\ IF fail
       THEN /\ failures' = failures + 1
            /\ Finish(p, Error("OSError"))
            /\ UNCHANGED payload
       ELSE /\ UNCHANGED failures
            /\ payload' = [payload EXCEPT ![mid[p]] = "complete"]
            /\ Goto(p, "up_read")
    /\ UNCHANGED <<catalog, nextId, call, mid, snap, before, returned, uploads>>

\* The read of models.json into data.
UploadReadCatalog(p, fail) ==
    /\ pc[p] = "up_read"
    /\ MayFail(fail)
    /\ IF fail
       THEN /\ failures' = failures + 1
            /\ Finish(p, Error("OSError"))
            /\ UNCHANGED snap
       ELSE /\ UNCHANGED failures
            /\ IF catalog.ok
               THEN /\ snap' = [snap EXCEPT ![p] = catalog.models]
                    /\ Goto(p, "up_trunc")
               ELSE /\ UNCHANGED snap
                    /\ Finish(p, Error("JSONDecodeError"))
    /\ UNCHANGED <<catalog, payload, nextId, call, mid, before, returned, uploads>>

\* open(models_file, "w") truncates the catalog.
UploadOpenCatalog(p, fail) ==
    /\ pc[p] = "up_trunc"
    /\ MayFail(fail)
    /\ IF fail
       THEN /\ failures' = failures + 1
            /\ Finish(p, Error("OSError"))
            /\ UNCHANGED catalog
       ELSE /\ UNCHANGED failures
            /\ catalog' = Truncated
            /\ Goto(p, "up_dump")
    /\ UNCHANGED <<payload, nextId, call, mid, snap, before, returned, uploads>>

\* UploadEntry with the version of the default models in place of the one given.
UploadEntryDefaultVersion(p) ==
    ModelInfo(mid[p], call[p].name, V_1_0_0, call[p].type)

\* The AIModelInfo upload_model builds for its call (accuracy and the three
\* timestamps are left out: nothing reads them).
UploadEntry(p) == ModelInfo(mid[p], call[p].name, call[p].version, call[p].type)

\* data["models"].append(model_info.dict()), json.dump, return model_id.
UploadDumpCatalog(p, fail) ==
    /\ pc[p] = "up_dump"
    /\ MayFail(fail)
    /\ IF fail
       THEN /\ failures' = failures + 1
            /\ Finish(p, Error("OSError"))
            /\ catalog' \in {catalog, Truncated}
            /\ UNCHANGED returned
       ELSE /\ UNCHANGED failures
            /\ catalog' \in Overwrite(catalog, Append(snap[p], UploadEntry(p)))
            /\ returned' = returned \cup {UploadEntry(p)}
            /\ Finish(p, [kind |-> "id", val |-> UploadEntry(p)])
    /\ UNCHANGED <<payload, nextId, call, mid, snap, before, uploads>>

\* The caller has its answer; the server takes the next call.
Return(p) ==
    /\ pc[p] = "done"
    /\ lastRead = NoRead
    /\ pc' = [pc EXCEPT ![p] = "idle"]
    /\ call' = [call EXCEPT ![p] = NoCall]
    /\ mid' = [mid EXCEPT ![p] = 0]
    /\ snap' = [snap EXCEPT ![p] = <<>>]
    /\ result' = [result EXCEPT ![p] = NoResult]
    /\ UNCHANGED <<sched, pipeVars, catalog, payload, nextId, before, lastRead, returned,
                   uploads, failures, updVars>>

RegistryNext ==
    \/ \E id \in Ids, fail \in BOOLEAN : GetModelCall(id, fail)
    \/ \E t \in AskTypes, fail \in BOOLEAN : GetModelByTypeCall(t, fail)
    \/ Respond
    \/ \E p \in Procs, fail \in BOOLEAN : ListModelsCall(p, fail)
    \/ \E p \in Procs, fail \in BOOLEAN : CreateDefaultsOpen(p, fail)
    \/ \E p \in Procs, fail \in BOOLEAN : CreateDefaultsDump(p, fail)
    \/ \E p \in Procs, t \in UploadTypes, name \in UploadNames, v \in UploadVersions :
           UploadModelCall(p, t, name, v)
    \/ \E p \in Procs, fail \in BOOLEAN : UploadOpenPayload(p, fail)
    \/ \E p \in Procs, fail \in BOOLEAN : UploadCopyPayload(p, fail)
    \/ \E p \in Procs, fail \in BOOLEAN : UploadReadCatalog(p, fail)
    \/ \E p \in Procs, fail \in BOOLEAN : UploadOpenCatalog(p, fail)
    \/ \E p \in Procs, fail \in BOOLEAN : UploadDumpCatalog(p, fail)
    \/ \E p \in Procs : Return(p)

\* ----------------------------------------------- ModelService.__init__
\* No file at the path of models.json.
Missing == [ok |-> FALSE, models |-> <<>>, exists |-> FALSE]

\* models.json as an earlier run of the service left it after list_models
\* had seeded it.
Seeded == [ok |-> TRUE, models |-> DefaultModels(1)]

\* MustCreate writing models.json whether or not the file exists.
MustCreateAlways(file) == TRUE

\* not os.path.exists(self.models_file).
MustCreate(file) == file = Missing

\* A server process starts: routers/models.py builds its ModelService.  The
\* directories are made; when there is no models.json, open(..., "w") creates
\* it, empty.
ConstructModelService(p, fail) ==
    /\ pc[p] = "down"
    /\ \A q \in Procs \ {p} : pc[q] \in {"down", "idle"}
    /\ lastRead = NoRead
    /\ MayFail(fail)
    /\ IF ~MustCreate(catalog)
       THEN /\ ~fail
            /\ pc' = [pc EXCEPT ![p] = "idle"]
            /\ UNCHANGED <<catalog, failures>>
       ELSE IF fail
       THEN /\ failures' = failures + 1
            /\ UNCHANGED <<catalog, pc>>
       ELSE /\ catalog' = Truncated
            /\ pc' = [pc EXCEPT ![p] = "boot_dump"]
            /\ UNCHANGED failures
    /\ UNCHANGED <<sched, pipeVars, payload, nextId, call, mid, snap, before,
                   result, lastRead, returned, uploads, updVars>>

\* __init__: json.dump({"models": []}, f); an OSError ends the process.
ConstructDump(p, fail) ==
    /\ pc[p] = "boot_dump"
    /\ MayFail(fail)
    /\ IF fail
       THEN /\ failures' = failures + 1
            /\ pc' = [pc EXCEPT ![p] = "down"]
            /\ UNCHANGED catalog
       ELSE /\ UNCHANGED failures
            /\ catalog' \in Overwrite(catalog, <<>>)
            /\ pc' = [pc EXCEPT ![p] = "idle"]
    /\ UNCHANGED <<sched, pipeVars, payload, nextId, call, mid, snap, before,
                   result, lastRead, returned, uploads, updVars>>

\* A server process that serves no call ends; its ModelService is gone.
Shutdown(p) ==
    /\ pc[p] = "idle"
    /\ lastRead = NoRead
    /\ pc' = [pc EXCEPT ![p] = "down"]
    /\ UNCHANGED <<sched, pipeVars, catalog, payload, nextId, call, mid, snap,
                   before, result, lastRead, returned, uploads, failures, updVars>>

\* No server runs; models.json is missing, or is what an earlier run left:
\* empty, seeded, or cut short by a write that failed.
BootInit ==
    /\ catalog \in {Missing, EmptyCatalog, Seeded, Truncated}
    /\ payload = <<>>
    /\ nextId = Len(Seeded.models) + 1
    /\ pc = [p \in Procs |-> "down"]
    /\ call = [p \in Procs |-> NoCall]
    /\ mid = [p \in Procs |-> 0]
    /\ snap = [p \in Procs |-> <<>>]
    /\ before = catalog
    /\ result = [p \in Procs |-> NoResult]
    /\ lastRead = NoRead
    /\ returned = {}
    /\ uploads = 0
    /\ failures = 0

BootNext ==
    \/ \E p \in Procs, fail \in BOOLEAN : ConstructModelService(p, fail)
    \/ \E p \in Procs, fail \in BOOLEAN : ConstructDump(p, fail)
    \/ \E p \in Procs : Shutdown(p)
    \/ RegistryNext

\* ------------------------------------------- fraud-detection update runs
\* The two scripts: kyc-service/internal/ai/fraud_detection.py, whose joblib
\* file holds (model, scaler), and aml-service/internal/ai/fraud_detection.py,
\* whose joblib file holds the model alone.
Scripts == {"kyc", "aml"}

\* A training batch as the scripts see it: the numbers of feature rows and of
\* labels, and whether every row has the fields the script reads.
Batches == [features : 0..MaxRows, labels : 0..MaxRows, conforms : BOOLEAN]

\* The data the classifier and scaler installed with the kyc service were fit on.
TrainingSet == [features |-> 0, labels |-> 0, conforms |-> TRUE]

\* An estimator is told apart by the data it was last fit on.
Fitted(b) == [fitted |-> TRUE, on |-> b]
Unfitted == [fitted |-> FALSE, on |-> TrainingSet]

Stored(clf, scaler) == [state |-> "stored", clf |-> clf, scaler |-> scaler]
Absent == [state |-> "absent", clf |-> Unfitted, scaler |-> Unfitted]

\* A joblib file opened for writing and not, or not completely, written.
Unloadable == [state |-> "corrupt", clf |-> Unfitted, scaler |-> Unfitted]

Installed == Stored(Fitted(TrainingSet), Fitted(TrainingSet))

NoRun == [script |-> "", batch |-> TrainingSet]
NoEstimators == [clf |-> Unfitted, scaler |-> Unfitted]

UpdaterInit ==
    /\ modelFile = [kyc |-> Installed, aml |-> Absent]
    /\ upc = "idle"
    /\ urun = NoRun
    /\ umem = NoEstimators
    /\ ubefore = [kyc |-> Installed, aml |-> Absent]
    /\ uout = ""
    /\ published = {[script |-> "kyc", content |-> Installed]}

\* The run ends with an error: a traceback or sys.exit(1).
Exit(how) ==
    /\ upc' = "exited"
    /\ uout' = how

\* load_model.  kyc: joblib.load of (model, scaler), sys.exit(1) when it
\* fails.  aml: __init__ makes a new StandardScaler, load_model loads the
\* model when the file exists and makes a new RandomForestClassifier when not.
UpdateStart(script, batch) ==
    /\ upc = "idle"
    /\ urun' = [script |-> script, batch |-> batch]
    /\ ubefore' = modelFile
    /\ LET file == modelFile[script]
       IN  IF script = "kyc"
           THEN IF file.state = "stored"
                THEN /\ umem' = [clf |-> file.clf, scaler |-> file.scaler]
                     /\ upc' = "preprocess"
                     /\ UNCHANGED uout
                ELSE /\ Exit("exit1")
                     /\ UNCHANGED umem
           ELSE IF file.state = "corrupt"
                THEN /\ Exit("UnpicklingError")
                     /\ UNCHANGED umem
                ELSE /\ umem' = [clf |-> file.clf, scaler |-> Unfitted]
                     /\ upc' = "preprocess"
                     /\ UNCHANGED uout
    /\ UNCHANGED <<sched, pipeVars, regVars, failures, modelFile, published>>

\* One row, the data preprocess_features of the aml script refits the scaler on.
OneRow == [features |-> 1, labels |-> 0, conforms |-> TRUE]

\* preprocess_features on the batch.  kyc: the DataFrame of the batch is
\* wrapped in a list and handed to pd.DataFrame, which pandas may reject; rows
\* without the feature columns end in sys.exit(1); the loaded scaler is then
\* applied (transform), not refit.  aml: every row is read (KeyError when a
\* field is missing) and the scaler is refit on that row alone (fit_transform).
UpdatePreprocess(accepted) ==
    /\ upc = "preprocess"
    /\ LET b == urun.batch
       IN  IF urun.script = "kyc"
           THEN /\ UNCHANGED umem
                /\ IF ~accepted THEN Exit("ValueError")
                   ELSE IF ~b.conforms \/ b.features = 0 THEN Exit("exit1")
                   ELSE upc' = "fit" /\ UNCHANGED uout
           ELSE /\ accepted
                /\ IF b.features = 0
                   THEN upc' = "fit" /\ UNCHANGED <<uout, umem>>
                   ELSE IF ~b.conforms
                   THEN Exit("KeyError") /\ UNCHANGED umem
                   ELSE /\ umem' = [umem EXCEPT !.scaler = Fitted(OneRow)]
                        /\ upc' = "fit"
                        /\ UNCHANGED uout
    /\ UNCHANGED <<sched, pipeVars, regVars, failures, modelFile, urun, ubefore, published>>

\* UpdateFit fitting on as many rows as there are labels for, instead of raising.
UpdateFitTruncating ==
    /\ upc = "fit"
    /\ LET b == urun.batch
       IN  IF b.features = 0 \/ b.labels = 0
           THEN Exit("ValueError") /\ UNCHANGED umem
           ELSE /\ umem' = [clf |-> Fitted(b),
                            scaler |-> IF urun.script = "aml"
                                       THEN Fitted(b) ELSE umem.scaler]
                /\ upc' = "dump_open"
                /\ UNCHANGED uout
    /\ UNCHANGED <<sched, pipeVars, regVars, failures, modelFile, urun, ubefore, published>>

\* model.fit(X, labels) of scikit-learn raises ValueError when X has no rows or
\* when the numbers of rows and of labels differ; the aml script first refits
\* its scaler on the batch (scaler.fit, ValueError when there is no row).
UpdateFit ==
    /\ upc = "fit"
    /\ LET b == urun.batch
       IN  IF b.features = 0
           THEN Exit("ValueError") /\ UNCHANGED umem
           ELSE IF b.features # b.labels
           THEN /\ Exit("ValueError")
                /\ umem' = IF urun.script = "aml"
                           THEN [umem EXCEPT !.scaler = Fitted(b)] ELSE umem
           ELSE /\ umem' = [clf |-> Fitted(b),
                            scaler |-> IF urun.script = "aml"
                                       THEN Fitted(b) ELSE umem.scaler]
                /\ upc' = "dump_open"
                /\ UNCHANGED uout
    /\ UNCHANGED <<sched, pipeVars, regVars, failures, modelFile, urun, ubefore, published>>

\* joblib.dump opens model_path for writing: the file of the script is empty.
UpdateDumpOpen(fail) ==
    /\ upc = "dump_open"
    /\ MayFail(fail)
    /\ IF fail
       THEN /\ failures' = failures + 1
            /\ Exit("OSError")
            /\ UNCHANGED modelFile
       ELSE /\ UNCHANGED <<failures, uout>>
            /\ modelFile' = [modelFile EXCEPT ![urun.script] = Unloadable]
            /\ upc' = "dump_write"
    /\ UNCHANGED <<sched, pipeVars, regVars, urun, umem, ubefore, published>>

\* What the script pickles: (model, scaler) for kyc, the model for aml.
Dumped == IF urun.script = "kyc" THEN Stored(umem.clf, umem.scaler)
          ELSE Stored(umem.clf, Unfitted)

\* joblib.dump writes the pickle into model_path, the path it was loaded from.
UpdateDumpWrite(fail) ==
    /\ upc = "dump_write"
    /\ MayFail(fail)
    /\ IF fail
       THEN /\ failures' = failures + 1
            /\ Exit("OSError")
            /\ UNCHANGED <<modelFile, published>>
       ELSE /\ UNCHANGED failures
            /\ modelFile' = [modelFile EXCEPT ![urun.script] = Dumped]
            /\ published' = published \cup
                                {[script |-> urun.script, content |-> Dumped]}
            /\ Exit("success")
    /\ UNCHANGED <<sched, pipeVars, regVars, urun, umem, ubefore>>

\* The process is gone; the next command can run.
UpdateExit ==
    /\ upc = "exited"
    /\ upc' = "idle"
    /\ urun' = NoRun
    /\ umem' = NoEstimators
    /\ uout' = ""
    /\ UNCHANGED <<sched, pipeVars, regVars, failures, modelFile, ubefore, published>>

UpdaterNext ==
    \/ \E script \in Scripts, b \in Batches : UpdateStart(script, b)
    \/ \E accepted \in BOOLEAN : UpdatePreprocess(accepted)
    \/ UpdateFit
    \/ \E fail \in BOOLEAN : UpdateDumpOpen(fail)
    \/ \E fail \in BOOLEAN : UpdateDumpWrite(fail)
    \/ UpdateExit

\* ------------------------------------------------ fraud-detection predict
\* A probability is a whole number of steps of 1/Resolution: p = P / Resolution
\* for P in 0..Resolution.  A comparison of a probability or of a score
\* (100 * p) with a threshold of the source is made on the cross products.
Resolution == 1000

Probabilities == 0..Resolution

\* The feature values of a record, the scaled feature the classifier is given.
MaxFeature == 1
FeatureValues == 0..MaxFeature

\* A record a caller hands to predict: its feature value, whether the fields
\* the script reads are all there, whether transaction_time is an ISO string
\* (what json.loads gives) or a datetime object, its document_type ("absent"
\* when it has none), and the columns whose values meet the conditions the
\* kyc explanation tests.
DocumentTypes == {"absent", "passport", "id_card"}
RecordsWith(docs, flagSets) ==
    [x : FeatureValues, conforms : BOOLEAN, time : {"str", "datetime"},
     doc : docs, flags : flagSets]
Records == RecordsWith({"passport"}, {{}})
NoRecord == [x |-> 0, conforms |-> TRUE, time |-> "", doc |-> "absent", flags |-> {}]

\* A StandardScaler: whether it has been fit, and the mean it subtracts.
ScalerOf(mean) == [fitted |-> TRUE, mean |-> mean]
NewScaler == [fitted |-> FALSE, mean |-> 0]

\* The scaler of the (model, scaler) pair the kyc script loads with joblib.
PersistedScaler == ScalerOf(0)

\* scaler.transform.
Transform(s, x) == x - s.mean

\* model.predict_proba(X)[0][1] of the fitted classifier: a function of the
\* scaled feature, shifted by the bias that stands for what the classifier
\* has learnt, within [0, 1].
PredictProba(c, z) ==
    LET v == c.bias + z
    IN  IF v < 0 THEN 0 ELSE IF v > Resolution THEN Resolution ELSE v

\* model.predict(X)[0]: the class of the greater probability, class 0 on a tie.
Predict(c, z) == IF 2 * PredictProba(c, z) > Resolution THEN 1 ELSE 0

\* calculate_risk_level of the kyc script, on risk_score = 100 * P / Resolution.
calculate_risk_level(P) ==
    IF 100 * P < 33 * Resolution THEN "low"
    ELSE IF 100 * P < 67 * Resolution THEN "medium"
    ELSE "high"

\* The recommended_action of the kyc script: risk_score > 66.
RecommendedAction(P) ==
    IF 100 * P > 66 * Resolution THEN "Enhanced verification required"
    ELSE "Standard verification"

\* The risk level of the aml script, from the predicted class and
\* probabilities[1] (> 0.8, > 0.5).
AmlRiskLevel(prediction, P) ==
    IF prediction = 1
    THEN IF 10 * P > 8 * Resolution THEN "HIGH"
         ELSE IF 10 * P > 5 * Resolution THEN "MEDIUM"
         ELSE "LOW"
    ELSE "LOW"

\* A number as numerator and denominator.
Ratio(n, d) == [num |-> n, den |-> d]

\* An entry of risk_factors: its text, the two decimals that follow the text
\* (-1 when there are none), and the column it is about ("" when none).
Factor(about, txt, shown) == [about |-> about, text |-> txt, shown |-> shown]

\* A string made of a prefix and of parts joined by a separator.
Joined(prefix, sep, parts) == [prefix |-> prefix, sep |-> sep, parts |-> parts]
NoText == Joined("", "", <<>>)

\* What predict returns; recommended_action is "" where the result has no
\* such field, and error names the exit of a call that returned nothing.
NoScore ==
    [variant |-> "", error |-> "", proba |-> 0, scaled |-> 0,
     risk_score |-> Ratio(0, 1), risk_level |-> "", confidence |-> Ratio(0, 1),
     recommended_action |-> "", columns |-> <<>>, explanation |-> NoText,
     risk_factors |-> <<>>]

\* predict of the kyc script on a scaled feature z.
KycResult(c, z) ==
    LET P == PredictProba(c, z)
    IN  [NoScore EXCEPT !.variant = "kyc", !.proba = P, !.scaled = z,
                        !.risk_score = Ratio(100 * P, Resolution),
                        !.risk_level = calculate_risk_level(P),
                        !.confidence = Ratio(P, Resolution),
                        !.recommended_action = RecommendedAction(P)]

\* FraudDetectionModel.predict of the aml script on a scaled feature z.
AmlResult(c, z) ==
    LET P == PredictProba(c, z)
        Q == IF P > Resolution - P THEN P ELSE Resolution - P
    IN  [NoScore EXCEPT !.variant = "aml", !.proba = P, !.scaled = z,
                        !.risk_score = Ratio(P, Resolution),
                        !.risk_level = AmlRiskLevel(Predict(c, z), P),
                        !.confidence = Ratio(Q, Resolution)]

\* ------------------------------------------- predict: columns, explanation
\* feature_columns of the kyc preprocess_features, before the doc_type columns.
KycFeatureColumns ==
    << "transaction_amount", "log_amount", "hour_of_day", "day_of_week",
       "transaction_frequency", "user_age", "account_age",
       "previous_fraud_reports", "document_quality", "document_age",
       "country_risk_score", "ip_risk_score", "login_attempts", "failed_logins" >>

\* The features the aml preprocess_features puts into X, in its order, which
\* is also the order of the names predict zips feature_importances_ with.
AmlFeatureNames ==
    << "amount", "transaction_count", "average_amount", "amount_deviation",
       "user_age", "account_age", "country_risk", "ip_risk", "login_attempts",
       "failed_logins", "device_changes", "pep_status", "sanction_list",
       "watch_list" >>

\* pd.get_dummies(df, columns=['document_type'], prefix='doc_type') on the one
\* row of the request: one column, named after the value of that row; none
\* when the record has no document_type.
DocTypeColumns(doc) == IF doc = "absent" THEN <<>> ELSE << <<"doc_type_", doc>> >>

\* The columns preprocess_features of the kyc script returns for a record.
KycColumns(rec) ==
    [i \in 1..Len(KycFeatureColumns) |-> <<KycFeatureColumns[i]>>]
        \o DocTypeColumns(rec.doc)

\* The columns of X in the aml script, whatever the record.
AmlColumns == [i \in 1..Len(AmlFeatureNames) |-> <<AmlFeatureNames[i]>>]

\* The document type of the rows the installed kyc scaler and classifier were
\* fit on, hence the columns they expect.
TrainedDocumentType == "passport"
TrainedColumns == KycColumns([doc |-> TrainedDocumentType])

\* feature_importances_ of the classifier, in steps of 1/ImportanceUnits, by
\* position; the positions not listed in Varied carry no importance here.
ImportanceUnits == 10
MaxImportance == 3
Varied == {1, 2, Len(AmlFeatureNames)}
Importances ==
    {[i \in 1..Len(AmlFeatureNames) |-> IF i \in Varied THEN f[i] ELSE 0] :
        f \in [Varied -> 0..MaxImportance]}
NoImportances == [i \in 1..Len(AmlFeatureNames) |-> 0]

\* The conditions generate_explanation of the kyc script tests on the
\* columns of the request, in its order, with the text each one adds.
KycRules ==
    << Factor("transaction_amount", "High transaction amount", -1),
       Factor("document_quality", "Low document quality", -1),
       Factor("country_risk_score", "High-risk country", -1),
       Factor("failed_logins", "Multiple failed login attempts", -1) >>
KycRuleNames == {KycRules[i].about : i \in 1..Len(KycRules)}

\* generate_explanation of the kyc script: the texts of the conditions the
\* record meets, or the one text that says there is none; joined by " | ".
generate_explanation(rec) ==
    LET met == SelectSeq(KycRules, LAMBDA r : r.about \in rec.flags)
    IN  Joined("", " | ",
               IF met = <<>>
               THEN << Factor("", "No significant risk factors identified", -1) >>
               ELSE met)

\* str.split(sep) of a joined string whose parts do not hold the separator.
Split(joined, sep) ==
    IF joined.sep = sep /\ joined.prefix = "" THEN joined.parts ELSE <<joined>>

\* f"{importance:.2f}": the importance in hundredths, rounded.
TwoDecimals(imp) == (200 * imp + ImportanceUnits) \div (2 * ImportanceUnits)

\* risk_factors of the aml predict: f"{feature}: {importance:.2f}" for every
\* feature with importance > 0.1, in the order of the feature names.
AmlRiskFactors(c) ==
    LET all == [i \in 1..Len(AmlFeatureNames) |->
                   Factor(AmlFeatureNames[i], AmlFeatureNames[i],
                          TwoDecimals(c.importances[i]))]
        above(i) == 10 * c.importances[i] > ImportanceUnits
        Pick[i \in 0..Len(AmlFeatureNames)] ==
            IF i = 0 THEN <<>>
            ELSE IF above(i) THEN Append(Pick[i - 1], all[i]) ELSE Pick[i - 1]
    IN  Pick[Len(AmlFeatureNames)]

\* What predict of the kyc script returns for a record it scores.
KycPredict(c, rec) ==
    [KycResult(c, Transform(PersistedScaler, rec.x)) EXCEPT
        !.columns = KycColumns(rec),
        !.explanation = generate_explanation(rec),
        !.risk_factors = Split(generate_explanation(rec), " | ")]

\* What predict of the aml script returns for a record it scores, the scaled
\* feature being z.
AmlPredict(c, z) ==
    [AmlResult(c, z) EXCEPT
        !.columns = AmlColumns,
        !.explanation = Joined("Risk factors: ", ", ", AmlRiskFactors(c)),
        !.risk_factors = AmlRiskFactors(c)]

\* No predict call has been made; the aml object holds the StandardScaler()
\* of __init__, the kyc script loads its scaler from the joblib file.
PipelineIdle ==
    /\ classifier = [bias |-> 0, importances |-> NoImportances]
    /\ scalers = [kyc |-> PersistedScaler, aml |-> NewScaler]
    /\ given = NoRecord
    /\ features = NoRecord
    /\ scored = NoScore

\* Both joblib files are in place and hold a fitted classifier, whichever it
\* is; no update run is under way.
ScoreInit ==
    /\ modelFile = [kyc |-> Installed,
                    aml |-> Stored(Fitted(TrainingSet), Unfitted)]
    /\ upc = "idle"
    /\ urun = NoRun
    /\ umem = NoEstimators
    /\ ubefore = modelFile
    /\ uout = ""
    /\ published = {[script |-> sc, content |-> modelFile[sc]] : sc \in Scripts}
    /\ classifier \in [bias : Probabilities, importances : {NoImportances}]
    /\ scalers = [kyc |-> PersistedScaler, aml |-> NewScaler]
    /\ given = NoRecord
    /\ features = NoRecord
    /\ scored = NoScore

\* predict of the kyc script, one process from load_model to sys.exit: the
\* features are copied into a DataFrame, a record without the feature columns
\* ends in sys.exit(1), the loaded scaler is applied.  scaler.transform raises
\* ValueError when the number of columns is not the one the scaler was fit
\* on; when only the names differ it raises or goes on (`accepted`),
\* depending on the scikit-learn at hand and on how the scaler was fit.
PredictKyc(rec, accepted) ==
    /\ ~accepted => /\ rec.conforms
                    /\ KycColumns(rec) # TrainedColumns
                    /\ Len(KycColumns(rec)) = Len(TrainedColumns)
    /\ given' = rec
    /\ features' = rec
    /\ scalers' = [scalers EXCEPT !.kyc = PersistedScaler]
    /\ scored' = IF ~rec.conforms
                 THEN [NoScore EXCEPT !.variant = "kyc", !.error = "exit1"]
                 ELSE IF \/ Len(KycColumns(rec)) # Len(TrainedColumns)
                         \/ ~accepted
                 THEN [NoScore EXCEPT !.variant = "kyc", !.error = "ValueError",
                                      !.columns = KycColumns(rec)]
                 ELSE KycPredict(classifier, rec)
    /\ UNCHANGED <<sched, regVars, failures, updVars, featVars, classifier>>

\* FraudDetectionModel.predict of the aml script on the object of the
\* process: preprocess_features replaces a transaction_time string in the
\* caller's dict by a datetime, raises KeyError on a missing field (before
\* that replacement when the field is transaction_time, after it when not),
\* and refits self.scaler on the one row (fit_transform), which scales it to
\* zero.
PredictAml(rec) ==
    /\ given' = rec
    /\ IF ~rec.conforms
       THEN /\ features' \in {rec, [rec EXCEPT !.time = "datetime"]}
            /\ scored' = [NoScore EXCEPT !.variant = "aml", !.error = "KeyError"]
            /\ UNCHANGED scalers
       ELSE /\ features' = [rec EXCEPT !.time = "datetime"]
            /\ scalers' = [scalers EXCEPT !.aml = ScalerOf(rec.x)]
            /\ scored' = AmlPredict(classifier, Transform(ScalerOf(rec.x), rec.x))
    /\ UNCHANGED <<sched, regVars, failures, updVars, featVars, classifier>>

\* main of the aml script starts a new process: a new FraudDetectionModel.
AmlNewProcess ==
    /\ scalers.aml # NewScaler
    /\ scalers' = [scalers EXCEPT !.aml = NewScaler]
    /\ UNCHANGED <<sched, regVars, failures, updVars, featVars, classifier, given,
                   features, scored>>

ScoreNext ==
    \/ \E rec \in Records : PredictKyc(rec, TRUE)
    \/ \E rec \in Records : PredictAml(rec)
    \/ AmlNewProcess

\* The records and the classifiers the explanations and the columns are
\* looked at for: every document type, every set of conditions met, every
\* importance of the varied features; one probability.
DetailedRecords ==
    {rec \in RecordsWith(DocumentTypes, SUBSET KycRuleNames) :
        rec.x = 0 /\ rec.conforms /\ rec.time = "str"}

ExplainInit ==
    /\ modelFile = [kyc |-> Installed,
                    aml |-> Stored(Fitted(TrainingSet), Unfitted)]
    /\ upc = "idle"
    /\ urun = NoRun
    /\ umem = NoEstimators
    /\ ubefore = modelFile
    /\ uout = ""
    /\ published = {[script |-> sc, content |-> modelFile[sc]] : sc \in Scripts}
    /\ classifier \in [bias : {0}, importances : Importances]
    /\ scalers = [kyc |-> PersistedScaler, aml |-> NewScaler]
    /\ given = NoRecord
    /\ features = NoRecord
    /\ scored = NoScore

ExplainNext ==
    \/ \E rec \in DetailedRecords, accepted \in BOOLEAN : PredictKyc(rec, accepted)
    \/ \E rec \in DetailedRecords : PredictAml(rec)
    \/ AmlNewProcess

\* ------------------------------------------------------ FeatureEngineer
\* A date field of a raw record: the key is absent, its value is None, or it
\* is a string, empty, unparseable, or the ISO form of day `day`.
MaxDay == 1
Days == 0..MaxDay
NoDate(kind) == [kind |-> kind, day |-> 0]
DateOf(d) == [kind |-> "date", day |-> d]
DateFields == {NoDate(k) : k \in {"absent", "none", "empty", "garbage"}}
                  \cup {DateOf(d) : d \in Days}

\* The clock datetime.now() reads, in days; it runs on to MaxNow.
MaxNow == 3
Clock == MaxDay..MaxNow

\* An email field: the key is absent, its value is None, or it is a str of at
\* most MaxEmailLen characters, here over 'a', 'B' and '@'.
MaxEmailLen == 3
EmailChars == {"a", "B", "@"}
Strs(n) == UNION {[1..k -> EmailChars] : k \in 0..n}
EmailFields == {[kind |-> "absent", str |-> <<>>], [kind |-> "none", str |-> <<>>]}
                   \cup {[kind |-> "str", str |-> s] : s \in Strs(MaxEmailLen)}

\* The risk_score field of a raw record, the upstream trust score: absent, or
\* a number.
MaxTrust == 1
TrustFields == {[kind |-> "absent", val |-> 0]}
                   \cup {[kind |-> "num", val |-> t] : t \in 0..MaxTrust}

RawRecords ==
    [date_of_birth : DateFields, created_at : DateFields,
     email : EmailFields, risk_score : TrustFields]

\* None and a number as results.
None == [kind |-> "none", val |-> 0]
Num(n) == [kind |-> "num", val |-> n]

\* data.get('date_of_birth'): None when the key is absent.
GetOrNone(field) == IF field.kind = "absent" THEN NoDate("none") ELSE field

\* data.get('created_at', datetime.now().isoformat()): the ISO string of the
\* clock when the key is absent.
GetOrNow(field, clock) == IF field.kind = "absent" THEN DateOf(clock) ELSE field

\* calculate_age: None when either argument is falsy (None or '') or when
\* pd.to_datetime raises; else the days between the two, over 365.25, kept
\* here as the number of days.
calculate_age(dob, created_at) ==
    IF dob.kind \in {"none", "empty"} \/ created_at.kind \in {"none", "empty"}
    THEN None
    ELSE IF dob.kind = "garbage" \/ created_at.kind = "garbage"
    THEN None
    ELSE Num(created_at.day - dob.day)

\* str.lower on the characters of the alphabet.
Lower(s) == [i \in DOMAIN s |-> IF s[i] = "B" THEN "b" ELSE s[i]]

\* The positions of '@' in a str.
Ats(s) == {i \in DOMAIN s : s[i] = "@"}

\* email.split('@')[1]: from the first '@' to the second one or to the end.
SplitAt1(s) ==
    LET first == CHOOSE i \in Ats(s) : \A j \in Ats(s) : i <= j
        rest == Ats(s) \ {first}
        stop == IF rest = {} THEN Len(s) + 1
                ELSE CHOOSE i \in rest : \A j \in rest : i <= j
    IN  SubSeq(s, first + 1, stop - 1)

\* extract_email_domain: 'unknown' for None, for '' and for a str without
\* '@'; else the lowercased second piece of the split.
Unknown == <<"u", "n", "k", "n", "o", "w", "n">>
extract_email_domain(email) ==
    IF email.kind # "str" \/ email.str = <<>> \/ Ats(email.str) = {}
    THEN Unknown
    ELSE Lower(SplitAt1(email.str))

\* features['risk_score']: data.get('risk_score', 0), then
\* 100 - risk_score if risk_score else 0.
EngineeredRisk(field) ==
    LET risk_score == IF field.kind = "absent" THEN 0 ELSE field.val
    IN  IF risk_score # 0 THEN 100 - risk_score ELSE 0

\* engineer_features at the time `clock` (the fields that are copied through,
\* location, document and names, are left out).
engineer_features(data, clock) ==
    [age |-> calculate_age(GetOrNone(data.date_of_birth),
                           GetOrNow(data.created_at, clock)),
     email_domain |-> extract_email_domain(data.email),
     risk_score |-> EngineeredRisk(data.risk_score)]

NoFeatures == [age |-> None, email_domain |-> <<>>, risk_score |-> 0]
NoRaw ==
    [date_of_birth |-> NoDate("absent"), created_at |-> NoDate("absent"),
     email |-> [kind |-> "absent", str |-> <<>>],
     risk_score |-> [kind |-> "absent", val |-> 0]]

\* ----------------------------------------------------------- TextProcessor
\* The text handed to get_text_features: None, '', the float NaN that stands
\* for a missing value in a pandas column, or a note.
Texts == {"None", "", "NaN", "note"}

\* What the FinBERT model does when it is invoked: it gives a probability, it
\* raises, or it does not come back.
ScorerOutcomes ==
    {[kind |-> "value", val |-> Resolution], [kind |-> "value", val |-> 0],
     [kind |-> "RuntimeError", val |-> 0], [kind |-> "timeout", val |-> 0]}

\* text_processor.py imports transformers, huggingface_hub, torch, numpy and
\* logging: the name pd that get_text_features uses is not bound.
PandasImported == FALSE

\* How a call ended, and whether the tokenizer and the model were invoked.
Signal(v) == [kind |-> "value", val |-> v, error |-> "", invoked |-> FALSE]
Raised(e) == [kind |-> "raised", val |-> 0, error |-> e, invoked |-> FALSE]
Hung == [kind |-> "hung", val |-> 0, error |-> "", invoked |-> TRUE]
NoSignal == [kind |-> "", val |-> 0, error |-> "", invoked |-> FALSE]
Invoked(sig) == [sig EXCEPT !.invoked = TRUE]

\* get_text_features: np.zeros(1) for a falsy text; else pd.isna(text) is
\* evaluated, then the tokenizer and the model are invoked, with nothing to
\* catch what they raise and no limit on the time they take.
get_text_features(txt, scorer) ==
    IF txt \in {"None", ""} THEN Signal(0)
    ELSE IF ~PandasImported THEN Raised("NameError")
    ELSE IF txt = "NaN" THEN Signal(0)
    ELSE IF scorer.kind = "value" THEN Invoked(Signal(scorer.val))
    ELSE IF scorer.kind = "timeout" THEN Hung
    ELSE Invoked(Raised(scorer.kind))

\* ------------------------------------------- feature pipeline, the calls
\* Nothing has been engineered and no text has been scored.
FeaturesIdle ==
    /\ now = MaxDay
    /\ raw = NoRaw
    /\ engineered = NoFeatures
    /\ again = NoFeatures
    /\ calls = 0
    /\ text = "None"
    /\ signal = NoSignal

\* engineer_features(data), the first call on a record.
EngineerFeatures(data) ==
    /\ calls = 0
    /\ raw' = data
    /\ engineered' = engineer_features(data, now)
    /\ again' = NoFeatures
    /\ calls' = 1
    /\ UNCHANGED <<sched, regVars, failures, updVars, scoreVars, now, text, signal>>

\* engineer_features on the record of the call before, once more.
EngineerAgain ==
    /\ calls = 1
    /\ again' = engineer_features(raw, now)
    /\ calls' = 2
    /\ UNCHANGED <<sched, regVars, failures, updVars, scoreVars, now, raw,
                   engineered, text, signal>>

\* The caller is done with the record.
NextRecord ==
    /\ calls = 2
    /\ raw' = NoRaw
    /\ engineered' = NoFeatures
    /\ again' = NoFeatures
    /\ calls' = 0
    /\ UNCHANGED <<sched, regVars, failures, updVars, scoreVars, now, text, signal>>

\* A day goes by.
Tick ==
    /\ now < MaxNow
    /\ now' = now + 1
    /\ UNCHANGED <<sched, regVars, failures, updVars, scoreVars, raw, engineered,
                   again, calls, text, signal>>

\* TextProcessor.get_text_features(text), the model behaving as `scorer`.
GetTextFeatures(txt, scorer) ==
    /\ text' = txt
    /\ signal' = get_text_features(txt, scorer)
    /\ UNCHANGED <<sched, regVars, failures, updVars, scoreVars, now, raw,
                   engineered, again, calls>>

FeatureNext ==
    \/ \E data \in RawRecords : EngineerFeatures(data)
    \/ EngineerAgain
    \/ NextRecord
    \/ Tick
    \/ \E txt \in Texts, scorer \in ScorerOutcomes : GetTextFeatures(txt, scorer)

\* --------------------------------------------------------- specifications
Start(s) ==
    sched = s /\ RegistryInit /\ UpdaterInit /\ PipelineIdle /\ FeaturesIdle

\* Concurrent registry calls, every file operation succeeding.
Init == Start("concurrent")
Next == RegistryNext
Spec == Init /\ [][Next]_vars

\* Registry calls one at a time, from start to return; file operations can fail.
SeqInit == Start("serial")
SeqSpec == SeqInit /\ [][RegistryNext]_vars

\* The update command of the fraud-detection scripts, one run at a time.
UpdSpec == SeqInit /\ [][UpdaterNext]_vars

\* predict calls of the two fraud-detection scripts, one at a time.
ScoreStart == sched = "serial" /\ RegistryInit /\ ScoreInit /\ FeaturesIdle
ScoreSpec == ScoreStart /\ [][ScoreNext]_vars

\* engineer_features and get_text_features calls, one at a time, as days go by.
FeatureSpec == SeqInit /\ [][FeatureNext]_vars

\* Servers of one MODEL_PATH start and stop; registry calls one at a time.
BootStart ==
    sched = "serial" /\ BootInit /\ UpdaterInit /\ PipelineIdle /\ FeaturesIdle
BootSpec == BootStart /\ [][BootNext]_vars

\* predict calls of the two scripts on records of every document type, for
\* classifiers of every feature importance.
ExplainStart == sched = "serial" /\ RegistryInit /\ ExplainInit /\ FeaturesIdle
ExplainSpec == ExplainStart /\ [][ExplainNext]_vars

\* ======================================================== registry claims
\* The entries of a list of models, as a set.
Entries(models) == {models[i] : i \in 1..Len(models)}

OfType(models, t) == {m \in Entries(models) : m.type = t}

Answered(r) == r.kind \in {"ok", "none"}

\* C1: a get_model_by_type call that finds artifacts of the type returns one
\* whose version no artifact of the type exceeds, major, minor and patch being
\* compared as integers.  (The code compares the version strings.)
C1_LatestIsNumericallyGreatest ==
    (lastRead.op = "get_latest" /\ Answered(lastRead.res)) =>
        /\ lastRead.res.kind = "ok" <=> OfType(lastRead.seen, lastRead.type) # {}
        /\ lastRead.res.kind = "ok" =>
              \A m \in OfType(lastRead.seen, lastRead.type) :
                  ~SemVerLess(lastRead.res.val.version, m.version)

\* An entry that _create_default_models wrote.
IsDefault(e) == \E k \in 0..3 : e = DefaultModels(e.id - k)[k + 1]

\* C2 as claimed: every artifact of a readable catalog, and every artifact
\* get_model_by_type returns, has a completely written payload file.
C2_EveryVisibleArtifactHasPayload ==
    /\ \A e \in Entries(catalog.models) : PayloadOf(e.id) = "complete"
    /\ (lastRead.op = "get_latest" /\ lastRead.res.kind = "ok") =>
           PayloadOf(lastRead.res.val.id) = "complete"

\* C2 as amended: every artifact of the catalog that upload_model appended, and
\* every such artifact get_model_by_type returns, has a completely written
\* payload file; the only artifacts without one are the default models.
C2_UploadedArtifactHasPayload ==
    /\ \A e \in Entries(catalog.models) :
           IsDefault(e) \/ PayloadOf(e.id) = "complete"
    /\ (lastRead.op = "get_latest" /\ lastRead.res.kind = "ok") =>
           \/ IsDefault(lastRead.res.val)
           \/ PayloadOf(lastRead.res.val.id) = "complete"

\* C2's case: an uploaded artifact is in the catalog while another upload has
\* its payload file open and half written.
C2_Witness ==
    /\ \E e \in Entries(catalog.models) : e \in returned
    /\ \E p \in Procs : pc[p] = "up_copy" /\ PayloadOf(mid[p]) = "partial"

\* C3: no reader (get_model, get_model_by_type, list_models, or the read in
\* upload_model) ever finds models.json empty or half written.
C3_ReadersSeeWholeCatalog ==
    /\ lastRead.res.kind # "JSONDecodeError"
    /\ \A p \in Procs : result[p].kind # "JSONDecodeError"

\* C4: when only upload_model calls have run and all of them have finished,
\* the catalog is the one a serial run of them leaves: readable, holding
\* exactly the entries of the uploads that returned an id.
C4_UploadsAreSerialized ==
    (nextId = uploads + 1 /\ \A p \in Procs : pc[p] \in {"idle", "done"}) =>
        /\ catalog.ok
        /\ Entries(catalog.models) = returned
        /\ Len(catalog.models) = Cardinality(returned)

\* C5: once upload_model has returned an id, every get_model(id) that answers
\* returns the artifact of that upload.
C5_NoArtifactIsRemoved ==
    (lastRead.op = "get" /\ Answered(lastRead.res)) =>
        \A e \in returned :
            e.id = lastRead.id => lastRead.res = [kind |-> "ok", val |-> e]

\* C6: round trip.  When upload_model has returned an id (and no other call
\* has run since), get_model(id) finds an artifact with that id and with the
\* type and version given to upload_model; and whenever get_model finds the
\* id of an upload, the artifact has the type and version given to it.
C6_RoundTrip ==
    /\ \A p \in Procs :
           (pc[p] = "done" /\ result[p].kind = "id") =>
               /\ catalog.ok
               /\ LET got == GetModel(catalog.models, mid[p])
                  IN  /\ got.kind = "ok"
                      /\ got.val.id = mid[p]
                      /\ got.val.type = call[p].type
                      /\ got.val.version = call[p].version
                      /\ result[p].val.id = mid[p]
    /\ (lastRead.op = "get" /\ lastRead.res.kind = "ok") =>
           /\ lastRead.res.val.id = lastRead.id
           /\ \A e \in returned :
                  e.id = lastRead.id => lastRead.res.val = e

\* C6's case: a get_model call has found the artifact of an upload.
C6_Witness ==
    /\ lastRead.op = "get"
    /\ lastRead.res.kind = "ok"
    /\ lastRead.res.val \in returned

\* C7: a get_model_by_type call for one of the four known types that answers
\* finds an artifact, whatever ran before it.
C7_KnownTypesAlwaysResolve ==
    (lastRead.op = "get_latest" /\ lastRead.type \in ModelTypes
        /\ Answered(lastRead.res)) =>
        lastRead.res.kind = "ok"

\* C10: an upload_model call that has failed leaves models.json as it was
\* when the call started, and no entry of the call in it.
C10_FailedUploadLeavesCatalog ==
    \A p \in Procs :
        (pc[p] = "done" /\ call[p].op = "upload" /\ result[p].kind # "id") =>
            /\ catalog = before
            /\ \A e \in Entries(catalog.models) : e.id # mid[p]

\* ========================================================= updater claims
\* C8: when an update run has succeeded, every artifact that was published
\* before it can still be loaded unchanged from the path it was published at:
\* the update has not overwritten it.
C8_UpdateNeverOverwrites ==
    (upc = "exited" /\ uout = "success") =>
        \A a \in published : modelFile[a.script] = a.content

C11_AbsentIsNotFound ==
    /\ (lastRead.op = "get" /\ Answered(lastRead.res)) =>
           IF \E m \in Entries(lastRead.seen) : m.id = lastRead.id
           THEN /\ HttpStatus(lastRead.res) = Found
                /\ lastRead.res.val \in Entries(lastRead.seen)
                /\ lastRead.res.val.id = lastRead.id
           ELSE HttpStatus(lastRead.res) = NotFound
    /\ (lastRead.op = "get_latest" /\ Answered(lastRead.res)) =>
           IF OfType(lastRead.seen, lastRead.type) # {}
           THEN /\ HttpStatus(lastRead.res) = Found
                /\ lastRead.res.val \in OfType(lastRead.seen, lastRead.type)
           ELSE HttpStatus(lastRead.res) = NotFound

\* C11's case: get_model was asked for an id no entry has while the catalog
\* held entries, and was answered 404.
C11_Witness ==
    /\ lastRead.op = "get"
    /\ lastRead.seen # <<>>
    /\ \A m \in Entries(lastRead.seen) : m.id # lastRead.id
    /\ HttpStatus(lastRead.res) = NotFound

\* ========================================================= scoring claims
\* A result that predict returned (the call did not end in an error).
Scored(v) == scored.variant = v /\ scored.error = ""

\* The risk level of a result, whatever the case it is spelt in.
Tier(level) ==
    IF level \in {"low", "LOW"} THEN "LOW"
    ELSE IF level \in {"medium", "MEDIUM"} THEN "MEDIUM"
    ELSE IF level \in {"high", "HIGH"} THEN "HIGH"
    ELSE "none"

\* The tier of the score 100 * P / Resolution: LOW below 33, MEDIUM from 33
\* and below 67, HIGH from 67.
TierOfScore(P) ==
    IF 100 * P < 33 * Resolution THEN "LOW"
    ELSE IF 100 * P < 67 * Resolution THEN "MEDIUM"
    ELSE "HIGH"

\* C12: in both scoring variants the risk_level of a result is the tier of
\* its score 100 * p: LOW below 33, MEDIUM from 33 and below 67, HIGH from 67.
C12_TiersPartition ==
    \A v \in Scripts :
        Scored(v) => Tier(scored.risk_level) = TierOfScore(scored.proba)

\* C12 for the kyc variant alone, which the code satisfies.
C12_KycTiersPartition ==
    Scored("kyc") => Tier(scored.risk_level) = TierOfScore(scored.proba)

\* C13: a kyc result is recommended "enhanced verification required" only
\* when its score has reached the HIGH boundary 67, and "standard
\* verification" only when it has not passed it; no MEDIUM result is
\* recommended enhanced verification.
C13_ActionFollowsHighTier ==
    Scored("kyc") =>
        /\ scored.recommended_action = "Enhanced verification required" =>
               /\ 100 * scored.proba >= 67 * Resolution
               /\ Tier(scored.risk_level) = "HIGH"
        /\ scored.recommended_action = "Standard verification" =>
               100 * scored.proba <= 67 * Resolution
        /\ scored.recommended_action \in
               {"Enhanced verification required", "Standard verification"}

\* C14: in both scoring variants the risk_score of a result is 100 times the
\* probability of the positive class, within [0, 100], and a probability of
\* 0.95 or more comes with risk_level HIGH and the enhanced-verification
\* action.
C14_ScoreIsHundredTimesProbability ==
    \A v \in Scripts :
        Scored(v) =>
            /\ scored.risk_score.num * Resolution =
                   100 * scored.proba * scored.risk_score.den
            /\ scored.risk_score.num >= 0
            /\ scored.risk_score.num <= 100 * scored.risk_score.den
            /\ 100 * scored.proba >= 95 * Resolution =>
                   /\ Tier(scored.risk_level) = "HIGH"
                   /\ scored.recommended_action = "Enhanced verification required"

\* C14 for the kyc variant alone, which the code satisfies.
C14_KycScoreIsHundredTimesProbability ==
    Scored("kyc") =>
        /\ scored.risk_score.num * Resolution =
               100 * scored.proba * scored.risk_score.den
        /\ 100 * scored.proba >= 95 * Resolution =>
               /\ Tier(scored.risk_level) = "HIGH"
               /\ scored.recommended_action = "Enhanced verification required"

\* C15: after a predict call of either variant that returned a result, the
\* caller's record is as it
\* was given, the scalers are the ones the variants were set up with (the
\* persisted scaler for kyc), the joblib files and the catalog are untouched,
\* and the result is the one the artifact gives for the record as given.
C15_ScoringIsStateless ==
    (Scored("kyc") \/ Scored("aml")) =>
        /\ features = given
        /\ scalers = [kyc |-> PersistedScaler, aml |-> NewScaler]
        /\ modelFile = ubefore
        /\ catalog = EmptyCatalog
        /\ Scored("kyc") => scored = KycPredict(classifier, given)

\* C15 for the kyc variant alone, which the code satisfies.
C15_KycScoringIsStateless ==
    Scored("kyc") =>
        /\ features = given
        /\ scalers.kyc = PersistedScaler
        /\ modelFile = ubefore
        /\ catalog = EmptyCatalog

\* =============================================== feature pipeline claims
\* C16: a second engineer_features call on the same raw record, whenever it
\* is made, returns the features the first call returned.
C16_EngineerIsDeterministic ==
    calls = 2 => again = engineered

\* A date field that holds no parseable date: absent, None, '' or unparseable.
NoParseableDate(field) == field.kind # "date"

\* C17: the age engineer_features yields is None when date_of_birth or
\* created_at is missing or unparseable in the raw record, and otherwise the
\* time from date_of_birth to created_at.
C17_AgeIsNullWithoutBothDates ==
    calls >= 1 =>
        IF NoParseableDate(raw.date_of_birth) \/ NoParseableDate(raw.created_at)
        THEN engineered.age = None
        ELSE engineered.age = Num(raw.created_at.day - raw.date_of_birth.day)

\* An address with exactly one '@' and something after it.
WellFormedEmail(email) ==
    /\ email.kind = "str"
    /\ Cardinality(Ats(email.str)) = 1
    /\ \E i \in Ats(email.str) : i < Len(email.str)

\* The characters after the '@' of an address that has one.
AfterAt(s) == LET at == CHOOSE i \in Ats(s) : TRUE IN SubSeq(s, at + 1, Len(s))

\* C18: the email_domain engineer_features yields is the lowercased part
\* after '@' of a well-formed address, and 'unknown' for an absent one, for
\* None, for '', for a str without '@', with nothing after '@' or with more
\* than one '@'.
C18_EmailDomainOrUnknown ==
    calls >= 1 =>
        IF WellFormedEmail(raw.email)
        THEN engineered.email_domain = Lower(AfterAt(raw.email.str))
        ELSE engineered.email_domain = Unknown

\* C19: the risk_score engineer_features yields is 100 minus the trust score
\* of the raw record when there is one, a trust score of 0 included, and 0
\* when there is none.
C19_RiskIsInvertedTrust ==
    calls >= 1 =>
        IF raw.risk_score.kind = "num"
        THEN engineered.risk_score = 100 - raw.risk_score.val
        ELSE engineered.risk_score = 0

\* C20: a get_text_features call always comes back with a signal, never with
\* an exception and never not at all.
C20_TextScorerFailureDegrades ==
    signal.kind \in {"", "value"}

\* C21: a get_text_features call on an empty or missing text (None, '' or
\* NaN) returns the signal 0 and invokes neither the tokenizer nor the model.
C21_EmptyTextIsZero ==
    (signal # NoSignal /\ text \in {"None", "", "NaN"}) => signal = Signal(0)

\* C21 for None and '' alone, which the code satisfies.
C21_NoneOrEmptyTextIsZero ==
    (signal # NoSignal /\ text \in {"None", ""}) => signal = Signal(0)


\* ---------------------------------------------------------------------
\* Risk factors, explanation and columns of a scored record (ExplainSpec)
\* ---------------------------------------------------------------------

\* The feature names the importances of the classifier of a script are
\* paired with, and the importance the classifier gives a named feature
\* (0 for a name that is no feature).
FeatureNamesOf(v) == IF v = "kyc" THEN KycFeatureColumns ELSE AmlFeatureNames
ImportanceOf(c, v, name) ==
    LET at == {i \in 1..Len(FeatureNamesOf(v)) : FeatureNamesOf(v)[i] = name}
    IN  IF at = {} THEN 0 ELSE c.importances[CHOOSE i \in at : TRUE]
Significant(c, v) ==
    {FeatureNamesOf(v)[i] : i \in {j \in 1..Len(FeatureNamesOf(v)) :
                                     10 * c.importances[j] > ImportanceUnits}}

\* C22: risk_factors of a scored record names exactly the features whose
\* importance in the artifact exceeds 0.1, each once, in order of descending
\* importance.
C22_RiskFactorsBySignificance ==
    (Scored("kyc") \/ Scored("aml")) =>
        LET rf == scored.risk_factors
            v == scored.variant
        IN  /\ {rf[i].about : i \in 1..Len(rf)} = Significant(classifier, v)
            /\ Len(rf) = Cardinality(Significant(classifier, v))
            /\ \A i, j \in 1..Len(rf) :
                   i < j => ImportanceOf(classifier, v, rf[i].about)
                              >= ImportanceOf(classifier, v, rf[j].about)

\* C22, the part the aml script keeps: its risk_factors names exactly the
\* features whose importance exceeds 0.1, each once (in the order of the
\* feature names).
C22_AmlRiskFactorsAreTheSignificantOnes ==
    Scored("aml") =>
        /\ {scored.risk_factors[i].about : i \in 1..Len(scored.risk_factors)}
              = Significant(classifier, "aml")
        /\ Len(scored.risk_factors) = Cardinality(Significant(classifier, "aml"))

\* C23: when no importance exceeds 0.1, the explanation of a scored record
\* is the literal string "no significant risk factors identified", in the kyc
\* and in the aml script.
C23_NoSignificantFactorLiteral ==
    ( /\ Scored("kyc") \/ Scored("aml")
      /\ Significant(classifier, scored.variant) = {} ) =>
        scored.explanation =
            Joined("", "", << Factor("", "no significant risk factors identified", -1) >>)

\* C24: for one artifact, two records that get as far as the scaler are
\* encoded to the same ordered list of columns, whatever their
\* document_type.
C24_ColumnsAreFixedByArtifact ==
    [][ ( /\ scored.variant # ""
          /\ scored'.variant = scored.variant
          /\ scored.columns # <<>>
          /\ scored'.columns # <<>> ) => scored'.columns = scored.columns ]_vars

\* C24, the aml script: every record is encoded to the fourteen columns of
\* the script.
C24_AmlColumnsAreFixed ==
    (scored.variant = "aml" /\ scored.columns # <<>>) => scored.columns = AmlColumns


\* ================================================ updater claims, continued
\* C25: after an update run that succeeded, the joblib file of the script
\* holds the classifier fit on the batch together with the scaler fit on
\* that same batch: the pair a later load returns is matched.
C25_PersistedPairIsMatched ==
    (upc = "exited" /\ uout = "success") =>
        /\ modelFile[urun.script].state = "stored"
        /\ modelFile[urun.script].clf = Fitted(urun.batch)
        /\ modelFile[urun.script].scaler = Fitted(urun.batch)

\* C25, the half both scripts keep: after an update run that succeeded, the
\* joblib file holds the classifier fit on the batch.
C25_PersistedClassifierIsRefit ==
    (upc = "exited" /\ uout = "success") =>
        /\ modelFile[urun.script].state = "stored"
        /\ modelFile[urun.script].clf = Fitted(urun.batch)


\* ============================================== registry claims, lifecycle
\* An artifact is superseded among a set of artifacts when one of them has
\* its type and a version that is greater, major, minor and patch being
\* compared as integers.
Superseded(e, among) ==
    \E m \in among : m.type = e.type /\ SemVerLess(e.version, m.version)

\* C26: get_model_by_type never returns an artifact that is superseded in the
\* catalog it read; and get_model with the id of an upload that returned
\* still returns that artifact when it is superseded by another upload.
C26_SupersededIsLeftToGetById ==
    /\ (lastRead.op = "get_latest" /\ lastRead.res.kind = "ok") =>
           ~Superseded(lastRead.res.val, Entries(lastRead.seen))
    /\ (lastRead.op = "get" /\ Answered(lastRead.res)) =>
           \A e \in returned :
               (e.id = lastRead.id /\ Superseded(e, returned)) =>
                   lastRead.res = [kind |-> "ok", val |-> e]

\* C26, the half that holds where the calls run one at a time: get_model with
\* the id of a superseded upload returns that artifact.
C26_SupersededIsReachableById ==
    (lastRead.op = "get" /\ Answered(lastRead.res)) =>
        \A e \in returned :
            (e.id = lastRead.id /\ Superseded(e, returned)) =>
                lastRead.res = [kind |-> "ok", val |-> e]


\* ========================================= registry claims, upload order
\* The (type, version) pairs of a catalog, as a set: what is left of it when
\* the order of the uploads and the number of artifacts per pair are
\* forgotten.
PublishedVersions(models, t) == {m.version : m \in OfType(models, t)}

\* The greatest of a set of version strings, as Python compares str.
GreatestStr(versions) ==
    CHOOSE v \in versions : \A w \in versions : ~StrLess(v, w)

\* C27: the version of the artifact get_model_by_type returns is determined
\* by the set of versions published for the type (it is the greatest of them
\* as strings), whatever the order of the uploads and however many artifacts
\* carry one version string.
C27_LatestVersionIsSetDetermined ==
    (lastRead.op = "get_latest" /\ Answered(lastRead.res)) =>
        IF PublishedVersions(lastRead.seen, lastRead.type) = {}
        THEN lastRead.res.kind = "none"
        ELSE /\ lastRead.res.kind = "ok"
             /\ lastRead.res.val.type = lastRead.type
             /\ lastRead.res.val.version =
                    GreatestStr(PublishedVersions(lastRead.seen, lastRead.type))

\* C27's case: get_model_by_type has answered from a catalog in which two
\* artifacts of the type carry the version string it returns, and in which
\* the artifact it returns comes after an artifact of the type with another
\* version.
C27_Witness ==
    /\ lastRead.op = "get_latest"
    /\ lastRead.res.kind = "ok"
    /\ \E i, j \in 1..Len(lastRead.seen) :
           /\ i < j
           /\ lastRead.seen[i].type = lastRead.type
           /\ lastRead.seen[j].type = lastRead.type
           /\ lastRead.seen[i].version = lastRead.seen[j].version
           /\ lastRead.seen[i].version = lastRead.res.val.version
           /\ lastRead.seen[i].id # lastRead.seen[j].id
    /\ \E i, j \in 1..Len(lastRead.seen) :
           /\ i < j
           /\ lastRead.seen[i].type = lastRead.type
           /\ lastRead.seen[j] = lastRead.res.val
           /\ lastRead.seen[i].version # lastRead.seen[j].version


\* ======================================= registry claims, listed artifacts
\* C28: when every call under way has completed, every id that a list_models
\* call has just returned is the id of an artifact of the catalog, so that
\* get_model finds it.
C28_ListedIdsResolve ==
    (\A q \in Procs : pc[q] \in {"idle", "done"}) =>
        \A p \in Procs :
            (pc[p] = "done" /\ call[p].op = "list" /\ result[p].kind = "list") =>
                /\ catalog.ok
                /\ \A i \in 1..Len(snap[p]) :
                       GetModel(catalog.models, snap[p][i].id).kind = "ok"


\* ========================================= registry claims, rejected upload
\* C29: an upload_model call whose type is none of DOCUMENT, FACE, RISK and
\* ANOMALY ends with ValueError, has created no payload file and no entry
\* for its id, and leaves models.json as it was when the call started.
C29_InvalidTypeWritesNothing ==
    \A p \in Procs :
        ( /\ pc[p] = "done"
          /\ call[p].op = "upload"
          /\ call[p].type \notin {"DOCUMENT", "FACE", "RISK", "ANOMALY"} ) =>
            /\ result[p].kind = "ValueError"
            /\ PayloadOf(mid[p]) = "none"
            /\ catalog = before
            /\ \A e \in Entries(catalog.models) : e.id # mid[p]

\* C29's case: an upload_model call with the type OTHER has ended, the catalog
\* holding the artifact of an earlier upload.
C29_Witness ==
    /\ \E p \in Procs :
           /\ pc[p] = "done"
           /\ call[p].op = "upload"
           /\ call[p].type = "OTHER"
           /\ result[p].kind = "ValueError"
    /\ catalog.ok
    /\ \E e \in Entries(catalog.models) : e \in returned


\* ================================================ registry claims, reads
\* C30: a step in which get_model or get_model_by_type answers leaves
\* models.json and the payload files as they are; a step of a list_models
\* call changes models.json only when the call read it with no entries; and
\* a ModelService constructed where models.json exists leaves the file as it
\* is.
C30_ReadsOnlySeed ==
    [][ /\ (lastRead' # lastRead /\ lastRead'.op \in {"get", "get_latest"}) =>
               (catalog' = catalog /\ payload' = payload)
        /\ \A p \in Procs :
               (pc'[p] # pc[p] /\ call'[p].op = "list" /\ catalog' # catalog) =>
                   (snap[p] = <<>> /\ pc[p] \in {"seed_open", "seed_dump"})
        /\ \A p \in Procs :
               (pc[p] = "down" /\ pc'[p] # "down" /\ catalog # Missing) =>
                   catalog' = catalog
        /\ \A p \in Procs :
               (pc[p] = "boot_dump" /\ catalog' # catalog) =>
                   (catalog = Truncated /\ catalog' = EmptyCatalog) ]_vars

\* C30's case: the servers were constructed where models.json held the
\* artifacts of an earlier run, and a list_models call has returned them, the
\* file still holding exactly them.
C30_Witness ==
    /\ catalog = Seeded
    /\ \E p \in Procs :
           /\ pc[p] = "done"
           /\ call[p].op = "list"
           /\ result[p].kind = "list"
           /\ snap[p] = Seeded.models
====
